---- MODULE Spec2Model ----
(***************************************************************************)
(* Model of the Hall_9000 glue layer:                                      *)
(*   - POST /api/chat  (src/app/api/chat/route.ts)                         *)
(*   - POST /api/stt   (src/unnamed/part_000, two copies of the route)     *)
(*   - the browser UI (src/unnamed/part_000, ChatInterface): sendMessage,  *)
(*     recording and transcription, speech synthesis and playback         *)
(* The hosted services (chat-completion provider, transcription provider, *)
(* database helpers) are the environment: their replies are chosen        *)
(* nondeterministically from small sets.                                   *)
(***************************************************************************)
EXTENDS Naturals, Sequences, FiniteSets, TLC

\* ------------------------------------------------------------------ bounds
\* chunks of the first completion consumed by the for-await loop
MaxChunks == 3
\* chunks of the follow-up completion
MaxFollowChunks == 2

\* ------------------------------------------------------------- JS helpers
\* JavaScript truthiness of a string: '' is falsy
TruthyStr(s) == s # ""

\* String.prototype.trim on the input alphabet: a blank string trims to ''
Trim(s) == IF s = " " THEN "" ELSE s

RECURSIVE Concat(_)
\* concatenation of a sequence of strings (strings are sequences of characters)
Concat(ss) == IF ss = <<>> THEN <<>> ELSE Head(ss) \o Concat(Tail(ss))

Last(s) == s[Len(s)]

\* ------------------------------------------------------- process environment
\* process.env.X: undefined, the empty string or a value
EnvValues == {"undefined", "", "key"}

\* a module that does not check its key
ModuleLoadUnchecked(envValue) == "loaded"

\* `if (!process.env.OPENAI_API_KEY) throw` / `if (!DEEPGRAM_API_KEY) throw`:
\* the result of evaluating the route module
ModuleLoad(envValue) ==
    IF envValue = "undefined" \/ ~TruthyStr(envValue) THEN "failed" ELSE "loaded"

\* ------------------------------------------------------------ chat messages
SYSTEM_PROMPT == "SYSTEM_PROMPT"
FOLLOW_UP_PROMPT == "SYSTEM_PROMPT+WICHTIG"

\* An incoming message: `keys` lists the optional properties the JSON object has
Msg(role, content, keys, tool_calls, tool_call_id) ==
    [role |-> role, content |-> content, keys |-> keys,
     tool_calls |-> tool_calls, tool_call_id |-> tool_call_id]

\* A tool call as the route assembles it (lines 582-589); `hole` marks an
\* empty slot of the sparse JavaScript array
ToolCall(id, name, arguments) ==
    [hole |-> FALSE, id |-> id, name |-> name, arguments |-> arguments]

Hole == [hole |-> TRUE, id |-> "", name |-> "", arguments |-> <<>>]

UserMsg == Msg("user", "hi", {}, <<>>, "")
AsstCallMsg ==
    Msg("assistant", "", {"tool_calls"},
        <<ToolCall("call_a", "queryTable", <<"{", "}">>)>>, "")
ToolMsg == Msg("tool", "rows", {"tool_call_id", "name"}, <<>>, "call_a")
ToolMsgEmptyId == Msg("tool", "rows", {"tool_call_id"}, <<>>, "")

\* Request bodies a client can post. kind: what req.json() gives.
\*   invalid  - the body is not JSON (req.json() rejects)
\*   null     - the JSON value null
\*   object   - a JSON object; hasMessages/isArray/truthy describe body.messages
Body(kind, hasMessages, isArray, truthy, messages) ==
    [kind |-> kind, hasMessages |-> hasMessages, isArray |-> isArray,
     truthy |-> truthy, messages |-> messages]

NoBody == Body("none", FALSE, FALSE, FALSE, <<>>)

ArrayBody(msgs) == Body("object", TRUE, TRUE, TRUE, msgs)

RawBodies ==
    { Body("invalid", FALSE, FALSE, FALSE, <<>>),
      Body("null", FALSE, FALSE, FALSE, <<>>),
      Body("object", FALSE, FALSE, FALSE, <<>>),      \* {}
      Body("object", TRUE, FALSE, FALSE, <<>>),       \* {messages: ""}
      Body("object", TRUE, FALSE, TRUE, <<>>),        \* {messages: "x"}
      ArrayBody(<<>>),
      ArrayBody(<<UserMsg>>),
      ArrayBody(<<UserMsg, AsstCallMsg, ToolMsg, ToolMsgEmptyId>>) }

\* lines 396-413: one openaiMessage per incoming message
OpenaiMessage(m) ==
    [role |-> m.role, content |-> m.content,
     keys |-> {k \in {"tool_calls", "tool_call_id"} :
                 /\ k \in m.keys
                 /\ (k = "tool_call_id" => TruthyStr(m.tool_call_id))},
     tool_calls |-> IF "tool_calls" \in m.keys THEN m.tool_calls ELSE <<>>,
     tool_call_id |-> IF "tool_call_id" \in m.keys /\ TruthyStr(m.tool_call_id)
                      THEN m.tool_call_id ELSE ""]

SystemMessage(prompt) == Msg("system", prompt, {}, <<>>, "")

\* lines 388-413: the system prompt, then the mapped messages
OpenaiMessages(messages) ==
    <<SystemMessage(SYSTEM_PROMPT)>> \o
    [i \in 1..Len(messages) |-> OpenaiMessage(messages[i])]

\* lines 419-530: the names of the declared tools
DeclaredTools ==
    {"queryTable", "queryTableWithJoin", "getTableNames", "getTableStructure",
     "getCurrentDateTime"}

\* names the model can put in a tool call: the declared tools and one that
\* names a mutating operation no helper implements
ToolNames == DeclaredTools \cup {"dropTable"}

\* the read-only helpers of @/lib/supabase-query (line 3)
ReadOnlyHelpers ==
    {"queryTable", "queryTableWithJoin", "getTableNames", "getTableStructure"}

\* ----------------------------------------------------------- provider chunks
\* A tool-call delta of a chunk (delta.tool_calls[k])
Delta(index, id, name, arguments) ==
    [index |-> index, id |-> id, name |-> name, arguments |-> arguments]

\* the tool-call indexes the provider uses
Indexes == 0..1

\* fragments of an arguments string
ArgFragments == {<<"{">>, <<"}">>, <<"{", "}">>, <<"n">>}

\* the first delta of a call carries id and name, the later ones fragments of
\* the arguments; a delta may also replace the id or the name
Deltas ==
    { Delta(0, "call_a", n, <<"{", "}">>) : n \in ToolNames }
    \cup { Delta(0, "call_a", "queryTable", <<>>) }
    \cup { Delta(1, "call_b", n, <<"{", "}">>) : n \in {"getTableNames", "dropTable"} }
    \cup { Delta(0, "", "", a) : a \in ArgFragments \ {<<"{", "}">>} }
    \cup { Delta(1, "", "", <<"}">>) }
    \cup { Delta(0, "call_c", "", <<>>), Delta(0, "", "getTableNames", <<>>) }

\* A chunk of a streamed completion: choices[0].delta.content ('' when absent),
\* choices[0].delta.tool_calls (hasToolCalls: the property is present) and
\* choices[0].finish_reason ("null" when absent)
Chunk(content, hasToolCalls, tool_calls, finish) ==
    [content |-> content, hasToolCalls |-> hasToolCalls,
     tool_calls |-> tool_calls, finish |-> finish]

ContentDeltas == {<<"a">>, <<"b">>}

FinishReasons == {"stop", "tool_calls", "length"}

Chunks ==
    { Chunk(c, FALSE, <<>>, "null") : c \in ContentDeltas \cup {<<>>} }
    \cup { Chunk(<<>>, TRUE, <<d>>, "null") : d \in Deltas }
    \cup { Chunk(<<>>, TRUE, <<>>, "null") }
    \cup { Chunk(<<>>, FALSE, <<>>, f) : f \in FinishReasons }
    \cup { Chunk(<<"a">>, FALSE, <<>>, "stop"),
           Chunk(<<>>, TRUE,
                 <<Delta(0, "call_a", "getCurrentDateTime", <<"{", "}">>),
                   Delta(1, "call_b", "dropTable", <<"{", "}">>)>>,
                 "tool_calls") }

FollowUpChunks == { [content |-> c] : c \in ContentDeltas \cup {<<>>} }

\* ------------------------------------------------------ tool-call assembly
\* `!toolCalls[index]`: the slot is beyond the end of the array or a hole
SlotEmpty(toolCalls, index) ==
    index + 1 > Len(toolCalls) \/ toolCalls[index + 1].hole

\* `toolCalls[index] = v` on a JavaScript array: the array grows to index + 1
\* and the slots in between stay empty
SetSlot(toolCalls, index, v) ==
    [k \in 1..(IF index + 1 > Len(toolCalls) THEN index + 1 ELSE Len(toolCalls)) |->
        IF k = index + 1 THEN v
        ELSE IF k <= Len(toolCalls) THEN toolCalls[k] ELSE Hole]

\* an assembly in which a later fragment replaces the arguments
ApplyDeltaOverwrite(toolCalls, d) ==
    IF SlotEmpty(toolCalls, d.index)
    THEN SetSlot(toolCalls, d.index, ToolCall(d.id, d.name, d.arguments))
    ELSE LET old == toolCalls[d.index + 1]
         IN SetSlot(toolCalls, d.index,
                [hole |-> FALSE,
                 id |-> IF TruthyStr(d.id) THEN d.id ELSE old.id,
                 name |-> IF TruthyStr(d.name) THEN d.name ELSE old.name,
                 arguments |-> IF d.arguments # <<>> THEN d.arguments
                               ELSE old.arguments])

\* lines 579-600: one tool-call delta applied to the array
ApplyDelta(toolCalls, d) ==
    IF SlotEmpty(toolCalls, d.index)
    THEN SetSlot(toolCalls, d.index, ToolCall(d.id, d.name, d.arguments))
    ELSE LET old == toolCalls[d.index + 1]
         IN SetSlot(toolCalls, d.index,
                [hole |-> FALSE,
                 id |-> IF TruthyStr(d.id) THEN d.id ELSE old.id,
                 name |-> IF TruthyStr(d.name) THEN d.name ELSE old.name,
                 arguments |-> IF d.arguments # <<>>
                               THEN old.arguments \o d.arguments
                               ELSE old.arguments])

RECURSIVE ApplyDeltas(_, _)
\* lines 577-602: every delta of the chunk, in order
ApplyDeltas(toolCalls, ds) ==
    IF ds = <<>> THEN toolCalls
    ELSE ApplyDeltas(ApplyDelta(toolCalls, Head(ds)), Tail(ds))

\* --------------------------------------------------------- tool dispatch
\* JSON.parse(toolCall.function.arguments): "{}" is an object, "null" is null,
\* anything else of the fragment alphabet is no JSON text (SyntaxError)
ParseArgs(arguments) ==
    IF arguments = <<"{", "}">> THEN "object"
    ELSE IF arguments = <<"n">> THEN "null"
    ELSE "throw"

\* the branches that read a property of functionArgs (lines 619, 627, 638)
ReadsArgs(name) == name \in {"queryTable", "queryTableWithJoin", "getTableStructure"}

\* a dispatch that calls whatever function the model names
DispatchByName(name) == name

\* a dispatch whose second branch calls the helper of the first
DispatchJoinAsQuery(name) ==
    IF name \in {"queryTable", "queryTableWithJoin"} THEN "queryTable"
    ELSE IF name \in {"getTableNames", "getTableStructure", "getCurrentDateTime"}
         THEN name
    ELSE "none"

\* lines 617-644: the function the dispatch calls for a name ("none": the
\* else branch, which calls nothing)
DispatchTarget(name) ==
    IF name = "queryTable" THEN "queryTable"
    ELSE IF name = "queryTableWithJoin" THEN "queryTableWithJoin"
    ELSE IF name = "getTableNames" THEN "getTableNames"
    ELSE IF name = "getTableStructure" THEN "getTableStructure"
    ELSE IF name = "getCurrentDateTime" THEN "getCurrentDateTime"
    ELSE "none"

\* the functionResult of a call: what the called function returned, or
\* {error: `Unknown function: ${functionName}`}
FunctionResult(name, returned) ==
    IF DispatchTarget(name) = "none"
    THEN [kind |-> "error", text |-> <<"Unknown function: ", name>>]
    ELSE [kind |-> returned, text |-> <<>>]

\* JSON.stringify(functionResult): the JSON text of a value
JSONStringify(v) == [json |-> v]

\* lines 646-651: the tool message of a call
ToolResult(toolCall, functionResult) ==
    [tool_call_id |-> toolCall.id, role |-> "tool", name |-> toolCall.name,
     content |-> JSONStringify(functionResult)]

\* ------------------------------------------------------------------ state
VARIABLES
    openaiKey,       \* process.env.OPENAI_API_KEY
    chatModule,      \* "unloaded" | "loaded" | "failed": the chat route module
    client,          \* "none" | "ui" | "raw": who posted the chat request
    reqBody,         \* the body of the posted request
    pc,              \* position of the POST handler and of the stream's start()
    httpResp,        \* the HTTP response of POST /api/chat
    requests,        \* the chat-completion requests sent to the provider
    fullContent,     \* line 541
    pendingContent,  \* line 542
    toolCalls,       \* line 543
    hasToolCalls,    \* line 545
    toolResults,     \* line 610
    events,          \* the SSE events enqueued on the controller, in order
    closed,          \* controller.close() has been called
    nChunks,         \* chunks of the first completion consumed so far
    nFollow,         \* chunks of the follow-up completion consumed so far
    calls,           \* history: the tool calls dispatched, in order
    caught,          \* history: the stream's catch block has been entered
    finishes,        \* history: the finish_reasons processed, in order
    pendingRecv,     \* history: for each pendingContent entry, the chunk it came in
    deltasSeen,      \* history: the tool-call deltas assembled, in arrival order
    relay,           \* history: for each content event, when received and written
    uiMessages,      \* ChatInterface: messages
    uiInput,         \* ChatInterface: input
    isLoading,       \* ChatInterface: isLoading
    deepgramKey,     \* process.env.DEEPGRAM_API_KEY
    sttRoute,        \* "first" | "second": which copy of the stt route is deployed
    sttModule,       \* "unloaded" | "loaded" | "failed": the stt route module
    sttPc,           \* position of the stt POST handler
    sttForm,         \* the form data of the posted stt request
    sttFetches,      \* the requests sent to the transcription provider
    sttResp,         \* the HTTP response of POST /api/stt
    sttUpstream,     \* history: the status of the provider's reply (0: none)
    sttData,         \* history: the body response.json() read from the provider
    isRecording,     \* ChatInterface: isRecording
    isPlayingAudio,  \* ChatInterface: isPlayingAudio
    micRequests,     \* getUserMedia promises of startRecording still pending
    recorders,       \* the MediaRecorder objects created, each with its state
    mediaRecorderRef, \* ChatInterface: mediaRecorderRef.current (0: null)
    audioChunksRef,  \* ChatInterface: audioChunksRef.current.length
    sttInFlight,     \* the fetches of /api/stt not yet answered, by recorder
    ttsInFlight,     \* the fetches of /api/tts not yet answered, by text
    ttsLog,          \* history: every /api/tts request made, in order
    audios,          \* the Audio elements created, each with its state
    audioRef,        \* ChatInterface: audioRef.current (0: null)
    stopCalls        \* history: the recorder states stop() was invoked in

chatVars ==
    <<openaiKey, chatModule, client, reqBody, pc, httpResp, requests, fullContent,
      pendingContent, toolCalls, hasToolCalls, toolResults, events, closed,
      nChunks, nFollow, calls, caught, finishes, pendingRecv, deltasSeen, relay>>

uiVars == <<uiMessages, uiInput, isLoading>>

sttVars ==
    <<deepgramKey, sttRoute, sttModule, sttPc, sttForm, sttFetches, sttResp,
      sttUpstream, sttData>>

browserVars ==
    <<isRecording, isPlayingAudio, micRequests, recorders, mediaRecorderRef,
      audioChunksRef, sttInFlight, ttsInFlight, ttsLog, audios, audioRef,
      stopCalls>>

vars == <<chatVars, uiVars, sttVars, browserVars>>

streamLocals ==
    <<fullContent, pendingContent, toolCalls, hasToolCalls, toolResults,
      pendingRecv, deltasSeen>>

\* ------------------------------------------------------------------ events
Event(type, content) == [type |-> type, content |-> content]

ContentEvent(content) == Event("content", content)
ToolStartEvent == Event("tool_start", <<>>)
DoneEvent == Event("done", <<>>)
ErrorEvent == Event("error", <<>>)

\* ---------------------------------------------------------------- responses
NoResponse == [status |-> 0, type |-> "none", error |-> ""]

\* NextResponse.json({error}, {status})
JsonError(status, error) == [status |-> status, type |-> "json", error |-> error]

\* lines 708-714: new Response(stream, {headers: text/event-stream})
SseResponse == [status |-> 200, type |-> "sse", error |-> ""]

\* a 200 response with the JSON body {message: {role, content}}, the body
\* sendMessage reads (part_000 lines 408-412)
JsonMessage(content) ==
    [status |-> 200, type |-> "message", error |-> "", content |-> content]

\* Response.ok
Ok(resp) == resp.status >= 200 /\ resp.status <= 299

\* no chat request yet
ChatIdle ==
    /\ chatModule = "unloaded"
    /\ client = "none"
    /\ reqBody = NoBody
    /\ pc = "idle"
    /\ httpResp = NoResponse
    /\ requests = <<>>
    /\ fullContent = <<>>
    /\ pendingContent = <<>>
    /\ toolCalls = <<>>
    /\ hasToolCalls = FALSE
    /\ toolResults = <<>>
    /\ events = <<>>
    /\ closed = FALSE
    /\ nChunks = 0
    /\ nFollow = 0
    /\ calls = <<>>
    /\ caught = FALSE
    /\ finishes = <<>>
    /\ pendingRecv = <<>>
    /\ deltasSeen = <<>>
    /\ relay = <<>>

\* lines 182-186 of part_000: the useState initial values
UiIdle ==
    /\ uiMessages = <<>>
    /\ uiInput = ""
    /\ isLoading = FALSE

NoForm == [kind |-> "none", type |-> "", ext |-> ""]

NoSttResponse == [status |-> 0, error |-> "", transcript |-> "", keys |-> {}]

\* no body was read from the provider
NoData == [json |-> FALSE, channels |-> <<>>]

\* no stt request yet
SttIdle ==
    /\ sttModule = "unloaded"
    /\ sttPc = "idle"
    /\ sttForm = NoForm
    /\ sttFetches = <<>>
    /\ sttResp = NoSttResponse
    /\ sttUpstream = 0
    /\ sttData = NoData

\* part_000 lines 185-191: the useState and useRef initial values
BrowserIdle ==
    /\ isRecording = FALSE
    /\ isPlayingAudio = FALSE
    /\ micRequests = 0
    /\ recorders = <<>>
    /\ mediaRecorderRef = 0
    /\ audioChunksRef = 0
    /\ sttInFlight = <<>>
    /\ ttsInFlight = <<>>
    /\ ttsLog = <<>>
    /\ audios = <<>>
    /\ audioRef = 0
    /\ stopCalls = {}

Init ==
    /\ openaiKey \in EnvValues
    /\ ChatIdle
    /\ UiIdle
    /\ deepgramKey = "key"
    /\ sttRoute = "first"
    /\ SttIdle
    /\ BrowserIdle

\* ------------------------------------------------------------- module load
\* lines 52-58: evaluating the route module
LoadChatModule ==
    /\ chatModule = "unloaded"
    /\ chatModule' = ModuleLoad(openaiKey)
    /\ UNCHANGED <<openaiKey, client, reqBody, pc, httpResp, requests, streamLocals,
                   events, closed, nChunks, nFollow, calls, caught, finishes, relay,
                   uiVars, sttVars, browserVars>>

\* ------------------------------------------------------------------ clients
UiInputs == {"", " ", "hi"}

ERROR_TEXT == "Sorry, I encountered an error. Please try again."

UiMessage(role, content) == [role |-> role, content |-> content]

\* line 534: onChange={(e) => setInput(e.target.value)}
setInput(text) ==
    /\ client = "none"
    /\ uiInput' = text
    /\ UNCHANGED <<chatVars, uiMessages, isLoading, sttVars, browserVars>>

\* lines 396-401: the body sendMessage posts
UiRequestBody(messages) ==
    ArrayBody([i \in 1..Len(messages) |->
                  Msg(messages[i].role, messages[i].content, {}, <<>>, "")])

\* lines 378-402: sendMessage up to the fetch
sendMessage ==
    /\ client = "none"
    /\ ~(Trim(uiInput) = "" \/ isLoading)
    /\ LET userMessage == UiMessage("user", Trim(uiInput))
       IN /\ uiMessages' = Append(uiMessages, userMessage)
          /\ reqBody' = UiRequestBody(Append(uiMessages, userMessage))
    /\ uiInput' = ""
    /\ isLoading' = TRUE
    /\ client' = "ui"
    /\ pc' = "posted"
    /\ UNCHANGED <<openaiKey, chatModule, httpResp, requests, streamLocals, events,
                   closed, nChunks, nFollow, calls, caught, finishes, relay,
                   sttVars, browserVars>>

\* any other HTTP client posting a body to /api/chat
RawPost(body) ==
    /\ client = "none"
    /\ client' = "raw"
    /\ reqBody' = body
    /\ pc' = "posted"
    /\ UNCHANGED <<openaiKey, chatModule, httpResp, requests, streamLocals, events,
                   closed, nChunks, nFollow, calls, caught, finishes, relay, uiVars, sttVars, browserVars>>

\* --------------------------------------------------------- POST /api/chat
\* lines 377-385: "throw" (req.json() rejects, or null is destructured),
\* "400" (the check of line 380) or "ok"
ValidateBody(body) ==
    IF body.kind \in {"invalid", "null"} THEN "throw"
    ELSE IF ~body.hasMessages \/ ~body.truthy \/ ~body.isArray THEN "400"
    ELSE "ok"

\* lines 416-534: the first completion request
FirstRequest(messages) ==
    [messages |-> OpenaiMessages(messages), tools |-> DeclaredTools, stream |-> TRUE]

\* lines 375-534: the handler up to the await of the first completion
POST ==
    /\ pc = "posted"
    /\ chatModule = "loaded"
    /\ LET v == ValidateBody(reqBody)
       IN IF v = "throw"                                  \* lines 715-723
          THEN /\ httpResp' = JsonError(500, "exception message")
               /\ pc' = "answered"
               /\ UNCHANGED requests
          ELSE IF v = "400"                               \* lines 380-385
          THEN /\ httpResp' = JsonError(400, "Messages array is required")
               /\ pc' = "answered"
               /\ UNCHANGED requests
          ELSE /\ requests' = Append(requests, FirstRequest(reqBody.messages))
               /\ pc' = "create"
               /\ UNCHANGED httpResp
    /\ UNCHANGED <<openaiKey, chatModule, client, reqBody, streamLocals, events,
                   closed, nChunks, nFollow, calls, caught, finishes, relay, uiVars, sttVars, browserVars>>

\* lines 416, 715-723: the provider rejects the first completion request
CreateRejected ==
    /\ pc = "create"
    /\ httpResp' = JsonError(500, "exception message")
    /\ pc' = "answered"
    /\ UNCHANGED <<openaiKey, chatModule, client, reqBody, requests, streamLocals,
                   events, closed, nChunks, nFollow, calls, caught, finishes, relay,
                   uiVars, sttVars, browserVars>>

\* lines 416, 537-548, 708-714: the provider accepts; the stream is built, its
\* start() runs up to the await of the first chunk, and the response is returned
CreateResolved ==
    /\ pc = "create"
    /\ httpResp' = SseResponse
    /\ pc' = "loop"
    /\ UNCHANGED <<openaiKey, chatModule, client, reqBody, requests, streamLocals,
                   events, closed, nChunks, nFollow, calls, caught, finishes, relay,
                   uiVars, sttVars, browserVars>>

\* ------------------------------------------------- the stream's start()
\* a catch block that closes the stream without writing an event
CatchBlockSilent ==
    /\ caught' = TRUE
    /\ IF closed
       THEN /\ pc' = "crashed"
            /\ UNCHANGED <<events, closed>>
       ELSE /\ events' = events
            /\ closed' = TRUE
            /\ pc' = "ended"

\* a catch block whose writes go through on a closed stream
CatchBlockAfterClose ==
    /\ caught' = TRUE
    /\ events' = Append(events, ErrorEvent)
    /\ closed' = TRUE
    /\ pc' = IF closed THEN "crashed" ELSE "ended"

\* lines 700-704: the catch block. controller.enqueue throws on a closed
\* controller, so the block itself throws when the stream is closed already
\* and start() rejects ("crashed"); otherwise it writes the error event and
\* closes the stream
CatchBlock ==
    /\ caught' = TRUE
    /\ IF closed
       THEN /\ pc' = "crashed"
            /\ UNCHANGED <<events, closed>>
       ELSE /\ events' = Append(events, ErrorEvent)
            /\ closed' = TRUE
            /\ pc' = "ended"

\* lines 566-568: one content event per buffered delta, in order
FlushEvents(pending) == [i \in 1..Len(pending) |-> ContentEvent(pending[i])]

\* a flush on every finish_reason
ShouldFlushOnAnyFinish(finish, hasTC) == finish # "null" /\ ~hasTC

\* a flush that does not look at the tool calls seen
ShouldFlushIgnoringToolCalls(finish, hasTC) == finish = "stop"

\* line 564: the buffered content is written now
ShouldFlush(finish, hasTC) == finish = "stop" /\ ~hasTC

\* lines 564-574: the buffer after the finish check of a chunk
PendingAfter(pending, finish, hasTC) ==
    IF ShouldFlush(finish, hasTC) \/ finish = "tool_calls" THEN <<>> ELSE pending

\* lines 548-698: one chunk of the first completion, up to the next await
NextChunk(chunk) ==
    /\ pc = "loop"
    /\ nChunks < MaxChunks
    /\ nChunks' = nChunks + 1
    /\ LET hasTC == hasToolCalls \/ chunk.hasToolCalls
           hasContent == chunk.content # <<>>
           pend1 == IF hasContent THEN Append(pendingContent, chunk.content)
                    ELSE pendingContent
           recv1 == IF hasContent THEN Append(pendingRecv, nChunks + 1)
                    ELSE pendingRecv
           flush == ShouldFlush(chunk.finish, hasTC)
           flushThrows == flush /\ closed /\ pend1 # <<>>
           pend2 == PendingAfter(pend1, chunk.finish, hasTC)
           recv2 == IF pend2 = <<>> THEN <<>> ELSE recv1
           events1 == IF flush THEN events \o FlushEvents(pend1) ELSE events
           relay1 == IF flush
                     THEN relay \o [i \in 1..Len(recv1) |->
                                      [from |-> "first", recv |-> recv1[i],
                                       wrote |-> nChunks + 1]]
                     ELSE relay
           tcs == IF chunk.hasToolCalls THEN ApplyDeltas(toolCalls, chunk.tool_calls)
                  ELSE toolCalls
           finished == chunk.finish # "null"
       IN /\ hasToolCalls' = hasTC
          /\ fullContent' = fullContent \o chunk.content
          /\ IF flushThrows
             THEN \* line 567 throws on the closed controller
                  /\ pendingContent' = pend1
                  /\ pendingRecv' = recv1
                  /\ CatchBlock
                  /\ UNCHANGED <<toolCalls, relay, finishes>>
             ELSE /\ pendingContent' = pend2
                  /\ pendingRecv' = recv2
                  /\ toolCalls' = tcs
                  /\ IF ~finished
                     THEN /\ pc' = "loop"
                          /\ UNCHANGED <<events, closed, caught, relay, finishes>>
                     ELSE IF closed
                     THEN \* line 608 or line 696 throws on the closed controller
                          /\ CatchBlock
                          /\ UNCHANGED <<relay, finishes>>
                     ELSE /\ relay' = relay1
                          /\ finishes' = Append(finishes, chunk.finish)
                          /\ caught' = caught
                          /\ IF chunk.finish = "tool_calls" /\ Len(tcs) > 0
                             THEN /\ events' = Append(events1, ToolStartEvent)
                                  /\ closed' = closed
                                  /\ pc' = "tools"
                             ELSE /\ events' = Append(events1, DoneEvent)
                                  /\ closed' = TRUE
                                  /\ pc' = "loop"
    /\ UNCHANGED <<openaiKey, chatModule, client, reqBody, httpResp, requests,
                   toolResults, nFollow, calls, deltasSeen, uiVars, sttVars,
                   browserVars>>

\* tool-call deltas assembled in one run of the assembly
MaxDeltas == 3

\* lines 576-602 on their own: the tool-call deltas of one chunk are assembled
\* into toolCalls, as NextChunk does, with the deltas kept in arrival order
AssembleToolCalls(chunk) ==
    /\ chunk.hasToolCalls
    /\ Len(deltasSeen) + Len(chunk.tool_calls) <= MaxDeltas
    /\ hasToolCalls' = TRUE
    /\ toolCalls' = ApplyDeltas(toolCalls, chunk.tool_calls)
    /\ deltasSeen' = deltasSeen \o chunk.tool_calls
    /\ UNCHANGED <<openaiKey, chatModule, client, reqBody, pc, httpResp, requests,
                   fullContent, pendingContent, toolResults, events, closed,
                   nChunks, nFollow, calls, caught, finishes, pendingRecv, relay,
                   uiVars, sttVars, browserVars>>

\* line 548: the first completion's iterator is exhausted; start() returns
StreamEnds ==
    /\ pc = "loop"
    /\ pc' = "ended"
    /\ UNCHANGED <<openaiKey, chatModule, client, reqBody, httpResp, requests,
                   streamLocals, events, closed, nChunks, nFollow, calls, caught,
                   finishes, relay, uiVars, sttVars, browserVars>>

\* line 548: the first completion's iterator rejects (a provider or network error)
StreamFails ==
    /\ pc = "loop"
    /\ CatchBlock
    /\ UNCHANGED <<openaiKey, chatModule, client, reqBody, httpResp, requests,
                   streamLocals, nChunks, nFollow, calls, finishes, relay, uiVars, sttVars, browserVars>>

\* --------------------------------------------------------- tool execution
\* what an awaited database helper does: it resolves with a result or rejects
HelperOutcomes == {"rows", "throw"}

\* lines 611-652: one iteration of `for (const toolCall of toolCalls)`.
\* The iterator visits every index below length, an empty slot as undefined.
ExecuteToolCall(outcome) ==
    /\ pc = "tools"
    /\ Len(toolResults) < Len(toolCalls)
    /\ LET toolCall == toolCalls[Len(toolResults) + 1]
           target == DispatchTarget(toolCall.name)
           parsed == ParseArgs(toolCall.arguments)
           called == target # "none"
           returned == IF target \in ReadOnlyHelpers THEN outcome ELSE "datetime"
           functionResult == FunctionResult(toolCall.name, returned)
       IN IF \/ toolCall.hole                             \* line 612: TypeError
             \/ parsed = "throw"                          \* line 613: SyntaxError
             \/ (parsed = "null" /\ ReadsArgs(toolCall.name))  \* TypeError
          THEN /\ CatchBlock
               /\ UNCHANGED <<calls, toolResults>>
          ELSE /\ calls' = Append(calls, [slot |-> Len(toolResults) + 1,
                                          name |-> toolCall.name, fn |-> target,
                                          result |-> functionResult])
               /\ IF called /\ returned = "throw"
                  THEN /\ CatchBlock
                       /\ UNCHANGED toolResults
                  ELSE /\ toolResults' =
                            Append(toolResults,
                                   ToolResult(toolCall, functionResult))
                       /\ UNCHANGED <<events, closed, caught, pc>>
    /\ UNCHANGED <<openaiKey, chatModule, client, reqBody, httpResp, requests,
                   fullContent, pendingContent, toolCalls, hasToolCalls, pendingRecv,
                   deltasSeen,
                   nChunks, nFollow, finishes, relay, uiVars, sttVars, browserVars>>

\* follow-up messages with the tool results ahead of the assistant message
FollowUpMessagesSwapped(messages, calledTools, results) ==
    <<SystemMessage(FOLLOW_UP_PROMPT)>>
    \o messages
    \o results
    \o <<[role |-> "assistant", content |-> "null", tool_calls |-> calledTools]>>

\* lines 656-677: the messages of the follow-up request
FollowUpMessages(messages, calledTools, results) ==
    <<SystemMessage(FOLLOW_UP_PROMPT)>>
    \o messages
    \o <<[role |-> "assistant", content |-> "null", tool_calls |-> calledTools]>>
    \o results

\* a follow-up request that declares the tools again
FollowUpRequestWithTools(messages, calledTools, results) ==
    [messages |-> FollowUpMessages(messages, calledTools, results),
     tools |-> DeclaredTools, stream |-> TRUE]

\* lines 679-684: the follow-up request declares no tools
FollowUpRequest(messages, calledTools, results) ==
    [messages |-> FollowUpMessages(messages, calledTools, results),
     tools |-> {}, stream |-> TRUE]

\* lines 654-684: after the last tool call, the follow-up request is sent
SendFollowUp ==
    /\ pc = "tools"
    /\ Len(toolResults) = Len(toolCalls)
    /\ requests' = Append(requests,
                          FollowUpRequest(reqBody.messages, toolCalls, toolResults))
    /\ pc' = "followup_create"
    /\ UNCHANGED <<openaiKey, chatModule, client, reqBody, httpResp, streamLocals,
                   events, closed, nChunks, nFollow, calls, caught, finishes, relay,
                   uiVars, sttVars, browserVars>>

\* line 679: the provider rejects the follow-up request
FollowUpRejected ==
    /\ pc = "followup_create"
    /\ CatchBlock
    /\ UNCHANGED <<openaiKey, chatModule, client, reqBody, httpResp, requests,
                   streamLocals, nChunks, nFollow, calls, finishes, relay, uiVars, sttVars, browserVars>>

\* line 679: the provider accepts the follow-up request
FollowUpResolved ==
    /\ pc = "followup_create"
    /\ pc' = "followup"
    /\ UNCHANGED <<openaiKey, chatModule, client, reqBody, httpResp, requests,
                   streamLocals, events, closed, nChunks, nFollow, calls, caught,
                   finishes, relay, uiVars, sttVars, browserVars>>

\* lines 687-692: one chunk of the follow-up completion
FollowUpChunk(chunk) ==
    /\ pc = "followup"
    /\ nFollow < MaxFollowChunks
    /\ nFollow' = nFollow + 1
    /\ IF chunk.content # <<>>
       THEN /\ events' = Append(events, ContentEvent(chunk.content))
            /\ relay' = Append(relay, [from |-> "followup", recv |-> nFollow + 1,
                                       wrote |-> nFollow + 1])
       ELSE UNCHANGED <<events, relay>>
    /\ UNCHANGED <<openaiKey, chatModule, client, reqBody, pc, httpResp, requests,
                   streamLocals, closed, nChunks, calls, caught, finishes, uiVars, sttVars, browserVars>>

\* lines 687, 695-697: the follow-up iterator is exhausted: done, close, and the
\* for-await of the first completion goes on
FollowUpEnds ==
    /\ pc = "followup"
    /\ events' = Append(events, DoneEvent)
    /\ closed' = TRUE
    /\ pc' = "loop"
    /\ UNCHANGED <<openaiKey, chatModule, client, reqBody, httpResp, requests,
                   streamLocals, nChunks, nFollow, calls, caught, finishes, relay,
                   uiVars, sttVars, browserVars>>

\* line 687: the follow-up iterator rejects
FollowUpFails ==
    /\ pc = "followup"
    /\ CatchBlock
    /\ UNCHANGED <<openaiKey, chatModule, client, reqBody, httpResp, requests,
                   streamLocals, nChunks, nFollow, calls, finishes, relay, uiVars, sttVars, browserVars>>

\* ------------------------------------------------ sendMessage, after the fetch
\* the response body is complete: a JSON body at once, a stream when it is closed
BodyComplete ==
    httpResp.type \in {"json", "message"} \/ (httpResp.type = "sse" /\ closed)

\* line 408: response.json() parses the whole body as one JSON text; an SSE
\* body ("data: {...}\n\n" frames) is no JSON text, and the route's JSON bodies
\* are {error}, which have no `message`
ResponseJson(resp) ==
    IF resp.type = "json" THEN [parsed |-> TRUE, hasMessage |-> FALSE]
    ELSE IF resp.type = "message" THEN [parsed |-> TRUE, hasMessage |-> TRUE]
    ELSE [parsed |-> FALSE, hasMessage |-> FALSE]

\* lines 404-424: what sendMessage appends for a response
AssistantMessage(resp) ==
    IF ~Ok(resp) THEN UiMessage("assistant", ERROR_TEXT)            \* line 405
    ELSE IF ~ResponseJson(resp).parsed
         THEN UiMessage("assistant", ERROR_TEXT)                    \* line 408
    ELSE IF ~ResponseJson(resp).hasMessage
         THEN UiMessage("assistant", ERROR_TEXT)                    \* line 411
    ELSE UiMessage("assistant", resp.content)

\* lines 404-424: sendMessage after the fetch resolved and the body was read
sendMessageResume ==
    /\ client = "ui"
    /\ isLoading
    /\ httpResp # NoResponse
    /\ BodyComplete
    /\ uiMessages' = Append(uiMessages, AssistantMessage(httpResp))
    /\ isLoading' = FALSE
    /\ UNCHANGED <<chatVars, uiInput, sttVars, browserVars>>

\* ------------------------------------------- ChatInterface in the browser
\* In the browser the three endpoints are the environment of the component:
\* a fetch is answered with any of the responses below.

\* the user's sends, recording starts and plays in one session
MaxUserActions == 3

\* the sends, the recording starts that were not denied and the plays so far
UserActions ==
    Cardinality({ k \in 1..Len(uiMessages) : uiMessages[k].role = "user" })
    + micRequests + Len(recorders) + Len(ttsLog)

\* what a fetch of /api/chat resolves to
BackendAnswers ==
    {JsonError(500, "exception message"), SseResponse, JsonMessage("antwort")}

\* part_000 lines 396-402: the fetch of /api/chat resolves
ChatResponds(resp) ==
    /\ client = "ui"
    /\ pc = "posted"
    /\ httpResp' = resp
    /\ closed' = (resp.type = "sse")
    /\ pc' = "answered"
    /\ UNCHANGED <<openaiKey, chatModule, client, reqBody, requests, streamLocals,
                   events, nChunks, nFollow, calls, caught, finishes, relay,
                   uiVars, sttVars, browserVars>>

\* sendMessage has returned: the next call posts a new request
ChatTurnOver ==
    /\ client = "ui"
    /\ ~isLoading
    /\ UserActions < MaxUserActions
    /\ client' = "none"
    /\ reqBody' = NoBody
    /\ pc' = "idle"
    /\ httpResp' = NoResponse
    /\ closed' = FALSE
    /\ UNCHANGED <<openaiKey, chatModule, requests, streamLocals, events, nChunks,
                   nFollow, calls, caught, finishes, relay, uiVars, sttVars,
                   browserVars>>

\* a MediaRecorder with its state and the state of the tracks of its stream:
\* "recording"; "stopping" once stop() was called and the stop event is
\* queued; "inactive" once onstop has run
Recorder(state, tracks) == [state |-> state, tracks |-> tracks]

\* lines 208-225: startRecording up to the await of getUserMedia; the record
\* button shows it while isRecording is false and is disabled while loading
startRecording ==
    /\ ~isLoading
    /\ ~isRecording
    /\ UserActions < MaxUserActions
    /\ micRequests' = micRequests + 1
    /\ UNCHANGED <<chatVars, uiVars, sttVars, stopCalls, isRecording, isPlayingAudio,
                   recorders, mediaRecorderRef, audioChunksRef, sttInFlight,
                   ttsInFlight, ttsLog, audios, audioRef>>

\* lines 225-292: getUserMedia resolved: a recorder is created and started
startRecordingGranted ==
    /\ micRequests > 0
    /\ micRequests' = micRequests - 1
    /\ audioChunksRef' = 0
    /\ recorders' = Append(recorders, Recorder("recording", "live"))
    /\ mediaRecorderRef' = Len(recorders) + 1
    /\ isRecording' = TRUE
    /\ UNCHANGED <<chatVars, uiVars, sttVars, stopCalls, isPlayingAudio, sttInFlight,
                   ttsInFlight, ttsLog, audios, audioRef>>

\* lines 293-310: getUserMedia rejected
startRecordingDenied ==
    /\ micRequests > 0
    /\ micRequests' = micRequests - 1
    /\ isRecording' = FALSE
    /\ UNCHANGED <<chatVars, uiVars, sttVars, stopCalls, isPlayingAudio, recorders,
                   mediaRecorderRef, audioChunksRef, sttInFlight, ttsInFlight,
                   ttsLog, audios, audioRef>>

\* lines 313-318: stopRecording; the record button shows it while isRecording.
\* stop() on a recorder that is not recording throws and changes nothing
stopRecording ==
    /\ ~isLoading
    /\ isRecording
    /\ IF mediaRecorderRef # 0 /\ recorders[mediaRecorderRef].state = "recording"
       THEN recorders' = [recorders EXCEPT
                             ![mediaRecorderRef] = Recorder("stopping", "live")]
       ELSE UNCHANGED recorders
    /\ stopCalls' = IF mediaRecorderRef # 0
                    THEN stopCalls \cup {recorders[mediaRecorderRef].state}
                    ELSE stopCalls
    /\ UNCHANGED <<chatVars, uiVars, sttVars, isRecording, isPlayingAudio,
                   micRequests, mediaRecorderRef, audioChunksRef, sttInFlight,
                   ttsInFlight, ttsLog, audios, audioRef>>

\* lines 243-264: after stop() the recorder fires dataavailable, then stop:
\* ondataavailable keeps a chunk that is not empty, and onstop posts the
\* chunks to /api/stt unless there is none
onstop(r, hasData) ==
    /\ r \in 1..Len(recorders)
    /\ recorders[r].state = "stopping"
    /\ recorders' = [recorders EXCEPT ![r] = Recorder("inactive", "stopped")]
    /\ LET chunks == IF hasData THEN audioChunksRef + 1 ELSE audioChunksRef
       IN /\ audioChunksRef' = chunks
          /\ IF chunks = 0
             THEN /\ isRecording' = FALSE
                  /\ UNCHANGED sttInFlight
             ELSE /\ sttInFlight' = Append(sttInFlight, r)
                  /\ UNCHANGED isRecording
    /\ UNCHANGED <<chatVars, uiVars, sttVars, stopCalls, isPlayingAudio, micRequests,
                   mediaRecorderRef, ttsInFlight, ttsLog, audios, audioRef>>

\* a sequence without its i-th element
Without(seq, i) == SubSeq(seq, 1, i - 1) \o SubSeq(seq, i + 1, Len(seq))

\* what a fetch of /api/stt gives: a transcript, no transcript, or a failure
SttOutcomes == {"transcript", "empty", "error"}

\* a handler without its finally block: isRecording is reset on success only
onstopResumeNoFinally(i, outcome) ==
    /\ i \in 1..Len(sttInFlight)
    /\ sttInFlight' = Without(sttInFlight, i)
    /\ uiInput' = IF outcome = "transcript" THEN "hallo" ELSE uiInput
    /\ isRecording' = IF outcome = "transcript" THEN FALSE ELSE isRecording
    /\ UNCHANGED <<chatVars, uiMessages, isLoading, sttVars, stopCalls, isPlayingAudio,
                   micRequests, recorders, mediaRecorderRef, audioChunksRef,
                   ttsInFlight, ttsLog, audios, audioRef>>

\* lines 265-287: the fetch of /api/stt is answered
onstopResume(i, outcome) ==
    /\ i \in 1..Len(sttInFlight)
    /\ sttInFlight' = Without(sttInFlight, i)
    /\ uiInput' = IF outcome = "transcript" THEN "hallo" ELSE uiInput
    /\ isRecording' = FALSE
    /\ UNCHANGED <<chatVars, uiMessages, isLoading, sttVars, stopCalls, isPlayingAudio,
                   micRequests, recorders, mediaRecorderRef, audioChunksRef,
                   ttsInFlight, ttsLog, audios, audioRef>>

NoMessage == [role |-> "none", content |-> ""]

\* the first assistant message of the conversation
FirstAssistantMessage(messages) ==
    LET ks == { k \in 1..Len(messages) : messages[k].role = "assistant" }
    IN IF ks = {} THEN NoMessage
       ELSE messages[CHOOSE k \in ks : \A j \in ks : k <= j]

\* lines 443-445: [...messages].reverse().find((m) => m.role === 'assistant')
LastAssistantMessage(messages) ==
    LET ks == { k \in 1..Len(messages) : messages[k].role = "assistant" }
    IN IF ks = {} THEN NoMessage
       ELSE messages[CHOOSE k \in ks : \A j \in ks : j <= k]

\* Audio.pause() on the element audioRef holds
Paused(as, ref) ==
    IF ref # 0 /\ as[ref] = "playing" THEN [as EXCEPT ![ref] = "paused"] ELSE as

\* lines 320-336: speakText up to the await of the fetch of /api/tts
speakText(text) ==
    /\ audios' = Paused(audios, audioRef)
    /\ audioRef' = 0
    /\ isPlayingAudio' = IF audioRef # 0 THEN FALSE ELSE isPlayingAudio
    /\ ttsInFlight' = Append(ttsInFlight, text)
    /\ ttsLog' = Append(ttsLog, [text |-> text, at |-> Len(uiMessages)])

\* lines 442-450: playLastResponse; the play button is there once the
\* conversation has a message, shows it while isPlayingAudio is false and is
\* disabled while loading
playLastResponse ==
    /\ Len(uiMessages) > 0
    /\ ~isLoading
    /\ ~isPlayingAudio
    /\ UserActions < MaxUserActions
    /\ LET lastAssistantMessage == LastAssistantMessage(uiMessages)
       IN IF lastAssistantMessage # NoMessage
          THEN speakText(lastAssistantMessage.content)
          ELSE UNCHANGED <<audios, audioRef, isPlayingAudio, ttsInFlight, ttsLog>>
    /\ UNCHANGED <<chatVars, uiVars, sttVars, stopCalls, isRecording, micRequests, recorders,
                   mediaRecorderRef, audioChunksRef, sttInFlight>>

\* what a fetch of /api/tts leads to: a failure, an audio that plays, or an
\* audio whose play() rejects
TtsOutcomes == {"error", "play", "blocked"}

\* lines 338-367: the fetch of /api/tts is answered and the audio is started
speakTextResume(i, outcome) ==
    /\ i \in 1..Len(ttsInFlight)
    /\ ttsInFlight' = Without(ttsInFlight, i)
    /\ IF outcome = "error"
       THEN /\ isPlayingAudio' = FALSE
            /\ UNCHANGED <<audios, audioRef>>
       ELSE /\ audios' = Append(audios, IF outcome = "play" THEN "playing"
                                        ELSE "blocked")
            /\ audioRef' = Len(audios) + 1
            /\ isPlayingAudio' = (outcome = "play")
    /\ UNCHANGED <<chatVars, uiVars, sttVars, stopCalls, isRecording, micRequests, recorders,
                   mediaRecorderRef, audioChunksRef, sttInFlight, ttsLog>>

\* lines 351-360: onended (and onerror) of an audio that plays
onended(a) ==
    /\ a \in 1..Len(audios)
    /\ audios[a] = "playing"
    /\ audios' = [audios EXCEPT ![a] = "ended"]
    /\ isPlayingAudio' = FALSE
    /\ audioRef' = 0
    /\ UNCHANGED <<chatVars, uiVars, sttVars, stopCalls, isRecording, micRequests, recorders,
                   mediaRecorderRef, audioChunksRef, sttInFlight, ttsInFlight,
                   ttsLog>>

\* lines 370-376: stopSpeaking; the play button shows it while isPlayingAudio
stopSpeaking ==
    /\ Len(uiMessages) > 0
    /\ ~isLoading
    /\ isPlayingAudio
    /\ IF audioRef # 0
       THEN /\ audios' = Paused(audios, audioRef)
            /\ audioRef' = 0
            /\ isPlayingAudio' = FALSE
       ELSE UNCHANGED <<audios, audioRef, isPlayingAudio>>
    /\ UNCHANGED <<chatVars, uiVars, sttVars, stopCalls, isRecording, micRequests, recorders,
                   mediaRecorderRef, audioChunksRef, sttInFlight, ttsInFlight,
                   ttsLog>>

\* ----------------------------------------------------------- POST /api/stt
\* the form data of a request: no `audio` field, a text field, or a file with
\* its type and the extension of its name
Form(kind, type, ext) == [kind |-> kind, type |-> type, ext |-> ext]

FileTypes == {"", "audio/webm", "audio/mp4", "text/plain"}

FileExts == {".webm", ".m4a", ".mp4", ".ogg", ".aac", ".wav", ".M4A", ""}

Forms ==
    { Form("invalid", "", ""), Form("none", "", ""), Form("text", "", "") }
    \cup { Form("file", t, e) : t \in FileTypes, e \in FileExts }

\* String.prototype.toLowerCase on the extensions
ToLowerCase(ext) == IF ext = ".M4A" THEN ".m4a" ELSE ext

\* part_000 lines 25-38: the content type the first copy forwards
InferContentType(type, ext) ==
    IF TruthyStr(type) THEN type
    ELSE LET e == ToLowerCase(ext)
         IN IF e = ".m4a" \/ e = ".mp4" THEN "audio/mp4"
            ELSE IF e = ".ogg" THEN "audio/ogg"
            ELSE IF e = ".aac" THEN "audio/aac"
            ELSE "audio/webm"

\* part_000 line 131: the content type the second copy forwards
DefaultContentType(type) == IF TruthyStr(type) THEN type ELSE "audio/webm"

\* the Content-Type header of the provider request
ForwardedContentType(route, form) ==
    IF route = "first" THEN InferContentType(form.type, form.ext)
    ELSE DefaultContentType(form.type)

GENERIC_STT_ERROR == "Failed to transcribe audio"

\* part_000 lines 61-68: the first copy's text for a provider status
SttErrorMessage(status) ==
    IF status = 400 THEN "Invalid audio format. Please try recording again."
    ELSE IF status = 401
         THEN "Deepgram API authentication failed. Please check your API key."
    ELSE IF status = 413
         THEN "Audio file is too large. Please record a shorter message."
    ELSE GENERIC_STT_ERROR

\* part_000 lines 51-74 and 136-143: the answer to a non-OK provider reply
UpstreamErrorResponse(route, status) ==
    [status |-> status,
     error |-> IF route = "first" THEN SttErrorMessage(status) ELSE GENERIC_STT_ERROR,
     transcript |-> "",
     keys |-> IF route = "first" THEN {"error", "details"} ELSE {"error"}]

SttError(status, error) ==
    [status |-> status, error |-> error, transcript |-> "", keys |-> {"error"}]

\* the statuses the provider answers with
ProviderStatuses == {200, 400, 401, 413, 415, 500}

\* the bodies of a provider reply with status 200: `json` is whether the body
\* parses, channels[c][a] is the transcript of alternative a of channel c
ProviderBodies ==
    { [json |-> FALSE, channels |-> <<>>],
      [json |-> TRUE, channels |-> <<>>],
      [json |-> TRUE, channels |-> << <<>> >>],
      [json |-> TRUE, channels |-> << <<"">> >>],
      [json |-> TRUE, channels |-> << <<"hallo">> >>],
      [json |-> TRUE, channels |-> << <<"hallo", "hello">>, <<"zwei">> >>] }

\* a transcript taken from the last alternative of the last channel
TranscriptLast(data) ==
    IF data.channels = <<>> THEN ""
    ELSE IF Last(data.channels) = <<>> THEN ""
    ELSE Last(Last(data.channels))

\* part_000 lines 79-80: data?.results?.channels?.[0]?.alternatives?.[0]?.transcript || ''
Transcript(data) ==
    IF data.channels = <<>> THEN ""
    ELSE IF data.channels[1] = <<>> THEN ""
    ELSE data.channels[1][1]

\* part_000 lines 3-7 and 104-108: evaluating the route module
LoadSttModule ==
    /\ sttModule = "unloaded"
    /\ sttModule' = ModuleLoad(deepgramKey)
    /\ UNCHANGED <<chatVars, uiVars, browserVars, deepgramKey, sttRoute, sttPc, sttForm,
                   sttFetches, sttResp, sttUpstream, sttData>>

\* a client posts form data to /api/stt
SttPost(form) ==
    /\ sttPc = "idle"
    /\ sttForm' = form
    /\ sttPc' = "posted"
    /\ UNCHANGED <<chatVars, uiVars, browserVars, deepgramKey, sttRoute, sttModule, sttFetches,
                   sttResp, sttUpstream, sttData>>

\* part_000 lines 9-49 (110-134): the handler up to the await of the fetch
SttHandle ==
    /\ sttPc = "posted"
    /\ sttModule = "loaded"
    /\ IF sttForm.kind \in {"invalid", "text"}
       THEN \* req.formData() rejects, or a text field has no arrayBuffer()
            /\ sttResp' = SttError(500, "exception message")
            /\ sttPc' = "answered"
            /\ UNCHANGED sttFetches
       ELSE IF sttForm.kind = "none"
       THEN /\ sttResp' = SttError(400, "Audio file is required")
            /\ sttPc' = "answered"
            /\ UNCHANGED sttFetches
       ELSE /\ sttFetches' =
                 Append(sttFetches,
                        [contentType |-> ForwardedContentType(sttRoute, sttForm)])
            /\ sttPc' = "fetch"
            /\ UNCHANGED sttResp
    /\ UNCHANGED <<chatVars, uiVars, browserVars, deepgramKey, sttRoute, sttModule, sttForm,
                   sttUpstream, sttData>>

\* part_000 lines 42, 90-97: the fetch rejects (the provider is unreachable)
SttFetchFails ==
    /\ sttPc = "fetch"
    /\ sttResp' = SttError(500, "exception message")
    /\ sttPc' = "answered"
    /\ UNCHANGED <<chatVars, uiVars, browserVars, deepgramKey, sttRoute, sttModule, sttForm,
                   sttFetches, sttUpstream, sttData>>

\* part_000 lines 51-89 (136-158): the provider replied
SttReply(status, data) ==
    /\ sttPc = "fetch"
    /\ sttPc' = "answered"
    /\ sttUpstream' = status
    /\ sttData' = IF status # 200 THEN NoData ELSE data
    /\ sttResp' =
         IF status # 200 THEN UpstreamErrorResponse(sttRoute, status)
         ELSE IF ~data.json THEN SttError(500, "exception message")
         ELSE IF ~TruthyStr(Transcript(data)) THEN SttError(400, "No speech detected")
         ELSE [status |-> 200, error |-> "", transcript |-> Transcript(data),
               keys |-> {"transcript"}]
    /\ UNCHANGED <<chatVars, uiVars, browserVars, deepgramKey, sttRoute, sttModule, sttForm,
                   sttFetches>>

\* -------------------------------------------------------------- specification
\* the steps of the route once a request is posted
Route ==
    \/ POST
    \/ CreateRejected
    \/ CreateResolved
    \/ \E chunk \in Chunks : NextChunk(chunk)
    \/ StreamEnds
    \/ StreamFails
    \/ \E outcome \in HelperOutcomes : ExecuteToolCall(outcome)
    \/ SendFollowUp
    \/ FollowUpRejected
    \/ FollowUpResolved
    \/ \E chunk \in FollowUpChunks : FollowUpChunk(chunk)
    \/ FollowUpEnds
    \/ FollowUpFails

\* POST /api/chat serving one request of any HTTP client
Next ==
    \/ LoadChatModule
    \/ \E body \in RawBodies : RawPost(body)
    \/ Route

Spec == Init /\ [][Next]_vars

\* POST /api/chat serving one request of the browser UI
NextUi ==
    \/ LoadChatModule
    \/ \E text \in UiInputs : setInput(text)
    \/ sendMessage
    \/ Route
    \/ sendMessageResume

SpecUi == Init /\ [][NextUi]_vars

\* the route module is loaded on demand, the handler and the provider take
\* their next step (a chunk, the end of the stream or its failure), and
\* sendMessage goes on once the body of the response is read
FairChat ==
    /\ WF_vars(LoadChatModule)
    /\ WF_vars(Route)
    /\ WF_vars(sendMessageResume)

SpecUiFair == SpecUi /\ FairChat

\* POST /api/stt serving one request, for either copy of the route
InitStt ==
    /\ openaiKey = "key"
    /\ ChatIdle
    /\ UiIdle
    /\ deepgramKey \in EnvValues
    /\ sttRoute \in {"first", "second"}
    /\ SttIdle
    /\ BrowserIdle

NextStt ==
    \/ LoadSttModule
    \/ \E form \in Forms : SttPost(form)
    \/ SttHandle
    \/ SttFetchFails
    \/ \E status \in ProviderStatuses, data \in ProviderBodies : SttReply(status, data)

SpecStt == InitStt /\ [][NextStt]_vars

\* both route modules are loaded and each route is posted a request
InitLoad ==
    /\ openaiKey \in EnvValues
    /\ ChatIdle
    /\ UiIdle
    /\ deepgramKey \in EnvValues
    /\ sttRoute \in {"first", "second"}
    /\ SttIdle
    /\ BrowserIdle

NextLoad ==
    \/ LoadChatModule
    \/ \E body \in RawBodies : RawPost(body)
    \/ POST
    \/ LoadSttModule
    \/ \E form \in Forms : SttPost(form)
    \/ SttHandle

SpecLoad == InitLoad /\ [][NextLoad]_vars

\* the assembly of the tool calls of a first completion, for every sequence
\* of tool-call deltas
NextAssembly == \E chunk \in Chunks : AssembleToolCalls(chunk)

SpecAssembly == Init /\ [][NextAssembly]_vars

\* the browser component against back-ends that answer anything
InitBrowser ==
    /\ openaiKey = "key"
    /\ ChatIdle
    /\ UiIdle
    /\ deepgramKey = "key"
    /\ sttRoute = "first"
    /\ SttIdle
    /\ BrowserIdle

NextBrowser ==
    \/ \E text \in UiInputs : setInput(text)
    \/ sendMessage
    \/ \E resp \in BackendAnswers : ChatResponds(resp)
    \/ sendMessageResume
    \/ ChatTurnOver
    \/ startRecording
    \/ startRecordingGranted
    \/ startRecordingDenied
    \/ stopRecording
    \/ \E r \in 1..MaxUserActions, hasData \in BOOLEAN : onstop(r, hasData)
    \/ \E i \in 1..MaxUserActions, outcome \in SttOutcomes :
          onstopResume(i, outcome)
    \/ playLastResponse
    \/ \E i \in 1..MaxUserActions, outcome \in TtsOutcomes :
          speakTextResume(i, outcome)
    \/ \E a \in 1..MaxUserActions : onended(a)
    \/ stopSpeaking

SpecBrowser == InitBrowser /\ [][NextBrowser]_vars

\* the browser runs the queued stop event of a recorder, and a fetch of
\* /api/stt is settled in the end: answered, failed or timed out
FairRecording ==
    /\ \A r \in 1..MaxUserActions :
          WF_vars(\E hasData \in BOOLEAN : onstop(r, hasData))
    /\ WF_vars(\E i \in 1..MaxUserActions, outcome \in SttOutcomes :
                 onstopResume(i, outcome))

\* the recorder of ChatInterface alone: the record button and its handlers
NextRecording ==
    \/ startRecording
    \/ startRecordingGranted
    \/ startRecordingDenied
    \/ stopRecording
    \/ \E r \in 1..MaxUserActions, hasData \in BOOLEAN : onstop(r, hasData)
    \/ \E i \in 1..MaxUserActions, outcome \in SttOutcomes :
          onstopResume(i, outcome)

SpecRecordingFair == InitBrowser /\ [][NextRecording]_vars /\ FairRecording

\* ====================================================================== claims
\* the stream has been closed after an exception was caught while it was open
ClosedByCatch == closed /\ caught /\ pc = "ended"

\* C1 (as stated): whenever the SSE stream is closed, the last event written
\* before the close is a `done` event, on the error paths too.
C1_LastEventIsDone ==
    closed => (events # <<>> /\ Last(events).type = "done")

\* C1 (amended): whenever the SSE stream is closed, the last event written is
\* a `done` event, except when an exception was caught inside the stream while
\* it was open: then the last event is an `error` event and the stream holds
\* no `done` event.
C1_LastEventIsDoneOrError ==
    closed =>
        /\ events # <<>>
        /\ Last(events).type \in {"done", "error"}
        /\ Last(events).type = "error" <=> (caught /\ pc = "ended")
        /\ Last(events).type = "error" =>
               \A i \in 1..Len(events) : events[i].type # "done"
        /\ \A i \in 1..(Len(events) - 1) : events[i].type \notin {"done", "error"}

\* C1 witness: a tool call failed, the catch block wrote `error` and closed
C1_Witness ==
    /\ ClosedByCatch
    /\ Last(events).type = "error"
    /\ Len(events) = 2
    /\ events[1].type = "tool_start"

\* C2 (as stated): a request whose JSON body has no `messages` array is
\* answered with HTTP 400 and no completion request is sent for it.
C2_MissingMessagesGives400 ==
    (/\ pc = "answered"
     /\ reqBody.kind \in {"null", "object"}
     /\ ~(reqBody.hasMessages /\ reqBody.isArray))
    => (httpResp.status = 400 /\ httpResp.error # "" /\ requests = <<>>)

\* the follow-up request, when one was sent
FollowUpSent == Len(requests) >= 2

\* the tool calls the follow-up request's assistant message carries
SentToolCalls == requests[2].messages[Len(reqBody.messages) + 2].tool_calls

\* C3: the follow-up request is sent only after every tool call of the first
\* completion has been executed, and its messages are: one system message, the
\* request's messages in order, one assistant message with all tool calls, then
\* one `tool` message per tool call, in order, with the call's id and the JSON
\* text of its result.
C3_FollowUpMessages ==
    FollowUpSent =>
        LET ms == requests[2].messages
            n == Len(reqBody.messages)
            t == Len(ms) - (n + 2)
        IN /\ finishes # <<>> /\ finishes[1] = "tool_calls"
           /\ Len(requests) = 2
           /\ Len(ms) >= n + 3
           /\ ms[1].role = "system"
           /\ \A i \in 1..n : ms[i + 1] = reqBody.messages[i]
           /\ ms[n + 2].role = "assistant"
           /\ Len(SentToolCalls) = t
           /\ pc \in {"followup_create", "followup"} => SentToolCalls = toolCalls
           /\ Len(calls) = t
           /\ \A i \in 1..t :
                /\ ~SentToolCalls[i].hole
                /\ calls[i].slot = i
                /\ calls[i].name = SentToolCalls[i].name
                /\ calls[i].result.kind # "throw"
                /\ ms[n + 2 + i].role = "tool"
                /\ ms[n + 2 + i].tool_call_id = SentToolCalls[i].id
                /\ ms[n + 2 + i].content = [json |-> calls[i].result]

\* C3 witness: a follow-up request after two tool calls, for a request with
\* several messages
C3_Witness ==
    /\ FollowUpSent
    /\ Len(SentToolCalls) = 2
    /\ Len(reqBody.messages) > 1
    /\ pc = "followup"

\* C4: a route whose API key is absent from the environment fails to load, and
\* no request is handled by a route without its key.
C4_NoKeyNoRoute ==
    /\ (chatModule # "unloaded" /\ openaiKey \in {"undefined", ""})
           => chatModule = "failed"
    /\ (sttModule # "unloaded" /\ deepgramKey \in {"undefined", ""})
           => sttModule = "failed"
    /\ pc \notin {"idle", "posted"} => openaiKey \notin {"undefined", ""}
    /\ sttPc \notin {"idle", "posted"} => deepgramKey \notin {"undefined", ""}

\* C4 witness: both modules failed to load and a request posted to each route
\* stays unhandled
C4_Witness ==
    /\ chatModule = "failed" /\ openaiKey = "undefined" /\ pc = "posted"
    /\ sttModule = "failed" /\ deepgramKey = "" /\ sttPc = "posted"

\* C5 (as stated): when the transcription provider rejects the audio with
\* status 400, POST /api/stt answers with a 4xx status and an error text that
\* describes the audio format, not the generic failure text.
C5_DescriptiveFormatError ==
    (sttPc = "answered" /\ sttUpstream = 400)
    => /\ sttResp.status >= 400 /\ sttResp.status <= 499
       /\ "error" \in sttResp.keys
       /\ sttResp.error # GENERIC_STT_ERROR

\* the calls of the dispatch that reach the database
DatabaseCalls ==
    { i \in 1..Len(calls) : calls[i].fn \notin {"none", "getCurrentDateTime"} }

\* C6: whatever tool calls the model emits, the only database operations the
\* route invokes are queryTable, queryTableWithJoin, getTableNames and
\* getTableStructure.
C6_OnlyReadOnlyHelpers ==
    \A i \in DatabaseCalls : calls[i].fn \in ReadOnlyHelpers

\* C6 witness: the model asked for a mutating operation and for a helper
C6_Witness ==
    /\ \E i \in 1..Len(calls) : calls[i].name = "dropTable"
    /\ DatabaseCalls # {}

\* C7 (as stated): the first completion request holds the system prompt, then
\* the request's messages in order, each with its role and content, and with
\* tool_calls and tool_call_id exactly when the incoming message has them.
C7_FirstRequestKeepsMessages ==
    requests # <<>> =>
        LET ms == requests[1].messages
            n == Len(reqBody.messages)
        IN /\ Len(ms) = n + 1
           /\ ms[1] = SystemMessage(SYSTEM_PROMPT)
           /\ \A i \in 1..n :
                LET in == reqBody.messages[i]
                    out == ms[i + 1]
                IN /\ out.role = in.role
                   /\ out.content = in.content
                   /\ \A k \in {"tool_calls", "tool_call_id"} :
                        k \in out.keys <=> k \in in.keys
                   /\ out.tool_calls = in.tool_calls
                   /\ out.tool_call_id = in.tool_call_id

\* the first completion asked for tools and the execution of the tool calls is
\* over: the follow-up is under way, or the stream ended without one
ToolPhaseOver ==
    /\ \E i \in 1..Len(events) : events[i].type = "tool_start"
    /\ \/ pc \in {"followup_create", "followup"}
       \/ (pc = "ended" /\ ~FollowUpSent)

\* the result an undeclared name gives: {error: 'Unknown function: <name>'}
UnknownFunction(name) == [kind |-> "error", text |-> <<"Unknown function: ", name>>]

\* C8 (as stated): every tool call the model requested is dispatched on its
\* name to the function of that name and executed exactly once, and a name
\* that matches no function gives an error result, never an exception.
C8_EveryCallExecutedOnce ==
    ToolPhaseOver =>
        /\ Len(calls) = Len(toolCalls)
        /\ \A i \in 1..Len(calls) :
             /\ calls[i].slot = i
             /\ calls[i].name = toolCalls[i].name
             /\ calls[i].name \in DeclaredTools => calls[i].fn = calls[i].name
             /\ calls[i].name \notin DeclaredTools =>
                    calls[i].result = UnknownFunction(calls[i].name)

\* C8 (amended): a tool call the dispatch loop reaches with arguments that
\* parse is dispatched on its name to the function of exactly that name, at
\* most once and in array order, and a name that matches no function gives
\* the result {error: 'Unknown function: <name>'}; when the follow-up request
\* is sent, every tool call has been dispatched exactly once and has its tool
\* message. (A call with unparsable arguments, an empty slot or a rejected
\* helper ends the stream with an error event and the later calls are not
\* executed.)
C8_DispatchByName ==
    /\ \A i \in 1..Len(calls) :
         /\ calls[i].slot = i
         /\ calls[i].name \in DeclaredTools => calls[i].fn = calls[i].name
         /\ calls[i].name \notin DeclaredTools =>
                /\ calls[i].fn = "none"
                /\ calls[i].result = UnknownFunction(calls[i].name)
    /\ FollowUpSent =>
         LET ms == requests[2].messages
             n == Len(reqBody.messages)
         IN /\ Len(ms) >= n + 2
            /\ ms[n + 2].role = "assistant"
            /\ Len(calls) = Len(SentToolCalls)
            /\ Len(ms) = n + 2 + Len(calls)
            /\ \A i \in 1..Len(calls) :
                 /\ calls[i].name = SentToolCalls[i].name
                 /\ ms[n + 2 + i].role = "tool"
                 /\ ms[n + 2 + i].name = calls[i].name

\* C8 witness: two tool calls, one of them for an undeclared name, were
\* dispatched and the follow-up request was sent
C8_Witness ==
    /\ FollowUpSent
    /\ Len(calls) = 2
    /\ \E i \in 1..Len(calls) : calls[i].fn = "none"
    /\ \E i \in 1..Len(calls) : calls[i].fn = calls[i].name

\* the content events of the stream
ContentEvents == { i \in 1..Len(events) : events[i].type = "content" }

\* C9 (as stated): when POST /api/chat answers a sendMessage request with a
\* success status, sendMessage appends the assistant's text, not the fixed
\* error text.
C9_UiShowsAnswer ==
    (client = "ui" /\ ~isLoading /\ Ok(httpResp) /\ ContentEvents # {})
    => (/\ uiMessages # <<>>
        /\ Last(uiMessages).role = "assistant"
        /\ Last(uiMessages).content # ERROR_TEXT)

\* C10 (as stated): every content delta that reaches the user is written to
\* the stream before the next chunk of the provider stream is consumed.
C10_RelayedAtOnce ==
    \A i \in 1..Len(relay) : relay[i].wrote = relay[i].recv

\* C10 (amended): the follow-up answer is relayed incrementally, each content
\* delta written before the next follow-up chunk is consumed; a direct answer
\* is buffered: its deltas are written, in order of arrival, only when the
\* chunk with finish_reason 'stop' is processed.
C10_FollowUpRelayedDirectBuffered ==
    /\ Len(relay) = Cardinality(ContentEvents)
    /\ finishes = <<>> =>
         (ContentEvents = {} /\ Concat(pendingContent) = fullContent)
    /\ \A i \in 1..Len(relay) :
         /\ relay[i].from = "followup" =>
                (relay[i].wrote = relay[i].recv /\ finishes[1] = "tool_calls")
         /\ relay[i].from = "first" =>
                /\ finishes[1] = "stop"
                /\ relay[i].recv <= relay[i].wrote
                /\ \A j \in 1..Len(relay) :
                     /\ relay[j].from = "first"
                     /\ relay[j].wrote = relay[i].wrote
                     /\ i < j => relay[i].recv < relay[j].recv

\* C10 witness: a delta of a direct answer written later than it was received
C10_Witness ==
    \E i \in 1..Len(relay) :
        /\ relay[i].from = "first"
        /\ relay[i].wrote > relay[i].recv
        /\ Len(relay) = 2

\* a database helper awaited for a tool call rejected
HelperRejected == \E i \in 1..Len(calls) : calls[i].result.kind = "throw"

\* the provider rejected the first completion request
FirstCreateFailed == pc = "answered" /\ requests # <<>>

\* the follow-up request or its stream failed while the stream was open
FollowUpFailed == FollowUpSent /\ caught /\ pc = "ended"

\* C11 (as stated): an error of a hosted API while a chat request is handled
\* (the first completion request, a database query of a tool call, or the
\* follow-up completion) is reported to the caller as an HTTP error status
\* with a readable message, never as a success status.
C11_ApiErrorGivesHttpError ==
    (FirstCreateFailed \/ HelperRejected \/ FollowUpFailed)
    => (httpResp.status >= 400 /\ httpResp.error # "")

\* the provider answered the stt request with a non-OK status
ProviderRefused == sttPc = "answered" /\ sttUpstream \notin {0, 200}

\* C12 (as stated): when the transcription provider answers with a non-OK
\* status s, POST /api/stt answers with the same status s and an `error` field
\* (a specific text for 400, 401 and 413, the generic text otherwise), and the
\* provider was called exactly once for the request.
C12_SameStatusSpecificText ==
    ProviderRefused =>
        /\ sttResp.status = sttUpstream
        /\ "error" \in sttResp.keys
        /\ "transcript" \notin sttResp.keys
        /\ sttUpstream \in {400, 401, 413} =>
               sttResp.error \notin {"", GENERIC_STT_ERROR}
        /\ sttUpstream \notin {400, 401, 413} => sttResp.error = GENERIC_STT_ERROR
        /\ Len(sttFetches) = 1

\* the transcript of the first alternative of the first channel of the body
\* the provider sent ('' when there is none)
FirstTranscript ==
    IF sttData.json /\ sttData.channels # <<>> /\ sttData.channels[1] # <<>>
    THEN sttData.channels[1][1] ELSE ""

\* C13: every response of POST /api/stt carries exactly one of `transcript` and
\* `error`; it has status 200 if and only if it carries a non-empty transcript,
\* the one of the provider's first channel and first alternative; a missing
\* `audio` field, an empty transcript, a provider failure and an exception each
\* give a non-200 status with `error` and no transcript.
C13_TranscriptOrError ==
    sttPc = "answered" =>
        /\ ("transcript" \in sttResp.keys) # ("error" \in sttResp.keys)
        /\ sttResp.status = 200 <=> "transcript" \in sttResp.keys
        /\ "transcript" \in sttResp.keys =>
               /\ sttResp.transcript # ""
               /\ sttUpstream = 200
               /\ sttResp.transcript = FirstTranscript
        /\ (\/ sttForm.kind # "file"
            \/ sttUpstream # 200
            \/ FirstTranscript = "") =>
               /\ sttResp.status >= 400
               /\ "error" \in sttResp.keys
               /\ "transcript" \notin sttResp.keys

\* C13 witness: the provider sent two channels with several alternatives and
\* the response carries the first alternative of the first channel
C13_Witness ==
    /\ sttPc = "answered"
    /\ sttResp.status = 200
    /\ Len(sttData.channels) = 2
    /\ Len(sttData.channels[1]) = 2
    /\ sttResp.transcript = "hallo"

\* the content type the file name stands for: audio/mp4 for .m4a and .mp4,
\* audio/ogg for .ogg, audio/aac for .aac, audio/webm for every other name
TypeOfName(ext) ==
    IF ToLowerCase(ext) \in {".m4a", ".mp4"} THEN "audio/mp4"
    ELSE IF ToLowerCase(ext) = ".ogg" THEN "audio/ogg"
    ELSE IF ToLowerCase(ext) = ".aac" THEN "audio/aac"
    ELSE "audio/webm"

\* C14 (as stated): the Content-Type POST /api/stt forwards to the provider is
\* the uploaded file's own type when that type is non-empty, and otherwise the
\* type inferred from the file name.
C14_ForwardedContentType ==
    sttFetches # <<>> =>
        /\ sttForm.type # "" => sttFetches[1].contentType = sttForm.type
        /\ sttForm.type = "" => sttFetches[1].contentType = TypeOfName(sttForm.ext)

\* C16: a chat request causes at most two completion requests: the first one,
\* and at most one follow-up, sent only when the first finished with tool
\* calls; the follow-up declares no tools, and no completion request is sent
\* again after a failure.
C16_AtMostTwoCompletions ==
    /\ Len(requests) <= 2
    /\ requests # <<>> => requests[1].tools = DeclaredTools
    /\ FollowUpSent =>
         /\ finishes # <<>>
         /\ finishes[1] = "tool_calls"
         /\ requests[2].tools = {}
         /\ \E i \in 1..Len(events) : events[i].type = "tool_start"
    /\ FirstCreateFailed => Len(requests) = 1
    /\ (caught /\ ~FollowUpSent) => Len(requests) = 1
    /\ Len(finishes) <= 1

\* C16 witness: after the follow-up answer was streamed, the first completion
\* delivered one more chunk, and still only two requests were sent
C16_Witness ==
    /\ FollowUpSent
    /\ closed
    /\ nFollow > 0
    /\ nChunks = 3
    /\ Len(requests) = 2

\* the text the content events of the stream carry, in order
WrittenContent ==
    Concat([i \in 1..Len(events) |->
               IF events[i].type = "content" THEN events[i].content ELSE <<>>])

\* C18 (as stated): when the first completion ends without any tool call,
\* whatever its finish_reason, the concatenation of the content events written
\* to the stream equals the concatenation of all content deltas received from
\* the provider, in the same order. Stated on the step that processes the
\* finish_reason of a completion without tool calls.
C18_NoTextLost ==
    [][(finishes = <<>> /\ finishes' # <<>> /\ ~hasToolCalls')
       => WrittenContent' = fullContent']_vars

\* the positions of the tool_start events of the stream
ToolStarts == { i \in 1..Len(events) : events[i].type = "tool_start" }

\* C19: when the first completion contains a tool call, none of its content
\* deltas is ever written to the stream: a delta of the first completion is
\* written only while no tool call has been seen, and once tools are run every
\* content event comes from the follow-up completion and follows the single
\* tool_start event.
C19_AnnouncementDiscarded ==
    /\ Cardinality(ToolStarts) <= 1
    /\ (hasToolCalls /\ finishes = <<>>) => ContentEvents = {}
    /\ \A i \in 1..Len(relay) :
         relay[i].from = "first" =>
             /\ ToolStarts = {}
             /\ relay[i].wrote = nChunks => ~hasToolCalls
    /\ ToolStarts # {} =>
         /\ hasToolCalls
         /\ \A i \in 1..Len(relay) : relay[i].from = "followup"
         /\ \A i \in ContentEvents : \A t \in ToolStarts : t < i
         /\ Len(relay) = Cardinality(ContentEvents)

\* C19 witness: the first completion announced its tool call with a content
\* delta, and the only content event is the follow-up's, after tool_start
C19_Witness ==
    /\ fullContent # <<>>
    /\ ToolStarts = {1}
    /\ ContentEvents = {2}
    /\ nFollow = 1

\* the tool-call indexes seen in the deltas
SeenIndexes == { deltasSeen[k].index : k \in 1..Len(deltasSeen) }

\* the deltas received for an index, in arrival order
DeltasOf(index) == SelectSeq(deltasSeen, LAMBDA d : d.index = index)

\* the last non-empty string of a sequence ('' when there is none)
LastNonEmpty(ss) ==
    LET ks == { k \in 1..Len(ss) : ss[k] # "" }
    IN IF ks = {} THEN ""
       ELSE ss[CHOOSE k \in ks : \A j \in ks : j <= k]

\* the entry of an index holds the concatenated fragments and the last
\* non-empty id and name received for the index
EntryAssembled(index) ==
    LET ds == DeltasOf(index)
        entry == toolCalls[index + 1]
    IN /\ ~entry.hole
       /\ entry.arguments = Concat([k \in 1..Len(ds) |-> ds[k].arguments])
       /\ entry.id = LastNonEmpty([k \in 1..Len(ds) |-> ds[k].id])
       /\ entry.name = LastNonEmpty([k \in 1..Len(ds) |-> ds[k].name])

\* C20 (as stated): when the first completion finishes, that is after any
\* sequence of tool-call deltas, the tool-call list holds exactly one entry
\* for each distinct index seen in the deltas and no empty slot; the arguments
\* of an entry are the concatenation in arrival order of the fragments
\* received for its index, and its id and name are the last non-empty values
\* received for that index.
C20_OneEntryPerIndexNoHole ==
    /\ Len(toolCalls) = Cardinality(SeenIndexes)
    /\ \A k \in 1..Len(toolCalls) : ~toolCalls[k].hole
    /\ \A index \in SeenIndexes :
         index + 1 <= Len(toolCalls) /\ EntryAssembled(index)

\* C20 (amended): the tool-call list is an array addressed by index: its
\* length is the highest index seen plus one, the slot of every index seen
\* holds one entry with the concatenated fragments and the last non-empty id
\* and name of that index, and the slot of an index below the highest that
\* was never seen is empty.
C20_ReassembledPerIndex ==
    /\ SeenIndexes = {} => toolCalls = <<>>
    /\ \A index \in SeenIndexes :
         /\ index + 1 <= Len(toolCalls)
         /\ EntryAssembled(index)
    /\ \A k \in 1..Len(toolCalls) :
         /\ toolCalls[k].hole <=> (k - 1) \notin SeenIndexes
         /\ \E index \in SeenIndexes : k <= index + 1

\* C20 witness: index 1 was seen in two deltas and index 0 in none: slot 0 is
\* empty and the entry of index 1 holds both fragments
C20_Witness ==
    /\ Len(deltasSeen) = 2
    /\ SeenIndexes = {1}
    /\ Len(toolCalls) = 2
    /\ toolCalls[1].hole
    /\ Len(toolCalls[2].arguments) = 3

\* the HTTP requests of the browser component that are not answered yet
InFlight ==
    (IF client = "ui" /\ isLoading THEN 1 ELSE 0)
    + Len(sttInFlight) + Len(ttsInFlight)

\* C15 (as stated): in the browser UI at most one HTTP request to the back-end
\* (/api/chat, /api/stt, /api/tts) is in flight at any time, for every
\* interleaving of send, start recording, stop recording, play last response
\* and stop audio.
C15_OneRequestInFlight == InFlight <= 1

\* the positions of the assistant messages among the first n messages
AssistantTurns(n) == { j \in 1..n : uiMessages[j].role = "assistant" }

\* C17: playLastResponse requests speech synthesis for the content of the most
\* recent assistant message of the conversation at that moment, and sends no
\* TTS request when the conversation holds no assistant message.
C17_SpeaksLastAssistantMessage ==
    /\ \A k \in 1..Len(ttsLog) :
         /\ ttsLog[k].at <= Len(uiMessages)
         /\ \E j \in AssistantTurns(ttsLog[k].at) :
              /\ \A i \in AssistantTurns(ttsLog[k].at) : i <= j
              /\ ttsLog[k].text = uiMessages[j].content
    /\ AssistantTurns(Len(uiMessages)) = {} => ttsLog = <<>>
    /\ \A ms \in {<<>>, <<UiMessage("user", "hi")>>} :
         LastAssistantMessage(ms) = NoMessage

\* C17 witness: the conversation holds two assistant messages with different
\* contents and speech was requested for the second one
C17_Witness ==
    /\ Len(uiMessages) = 4
    /\ uiMessages[2].content # uiMessages[4].content
    /\ ttsLog # <<>>
    /\ ttsLog[1].at = 4
    /\ ttsLog[1].text = uiMessages[4].content
    /\ ttsInFlight # <<>>

\* the audio elements that are playing
Playing == { a \in 1..Len(audios) : audios[a] = "playing" }

\* C21 (as stated): at most one synthesized audio is playing at any time, also
\* when speakText is invoked a second time while the TTS request of the first
\* invocation is still in flight.
C21_OneAudioPlaying == Cardinality(Playing) <= 1

\* stop() was called on recorder r and its stop handler has not run yet
Stopped(r) == r <= Len(recorders) /\ recorders[r].state = "stopping"

\* the stop handler of recorder r is through: the tracks of its stream are
\* stopped and isRecording is false
StopHandled(r) ==
    /\ r <= Len(recorders)
    /\ recorders[r].tracks = "stopped"
    /\ ~isRecording

\* C22: after a recording has been stopped, isRecording eventually becomes
\* false and the microphone tracks are stopped, on every path of the stop
\* handler: no audio chunk, a transcript, no transcript, a failed request.
C22_StopEndsRecording ==
    \A r \in 1..MaxUserActions : Stopped(r) ~> StopHandled(r)

\* C22 witness: a stopped recording was transcribed, its tracks are stopped
\* and isRecording is false again
C22_Witness ==
    /\ recorders # <<>>
    /\ recorders[1].state = "inactive"
    /\ recorders[1].tracks = "stopped"
    /\ audioChunksRef > 0
    /\ sttInFlight = <<>>
    /\ uiInput = "hallo"
    /\ ~isRecording

\* the start function of the SSE stream has returned or thrown: no chunk of
\* the request is processed any more
StreamOver == httpResp.type = "sse" /\ pc \in {"ended", "crashed"}

\* C23 (as stated): for every finite chunk sequence of the provider, also one
\* that ends without a chunk carrying a finish_reason, the SSE stream of a chat
\* request is closed by the server once the sequence has been processed.
C23_StreamClosedAtEnd == StreamOver => closed

\* the positions of the terminal events written to the stream
TerminalEvents == { i \in 1..Len(events) : events[i] \in {DoneEvent, ErrorEvent} }

\* C24: nothing is written to the SSE stream after it has been closed: a closed
\* stream stays closed and its events stay as they are, and at most one
\* terminal event (done or error) is written per request, as the last event,
\* also when further chunks or a second finish chunk arrive after the first
\* finish.
C24_NothingAfterClose ==
    /\ [](Cardinality(TerminalEvents) <= 1)
    /\ [](closed <=> (events # <<>> /\ Len(events) \in TerminalEvents))
    /\ [][closed => (closed' /\ events' = events)]_vars

\* C24 witness: after the finish chunk that closed the stream with done, a
\* further chunk with a finish_reason arrived and its write was refused
C24_Witness ==
    /\ closed
    /\ pc = "crashed"
    /\ Len(finishes) = 1
    /\ nChunks > 1
    /\ events[Len(events)] = DoneEvent

\* C25 (as stated): every sendMessage call that passes its guard appends one
\* user message at once and one assistant message later, the answer or the
\* fixed error text; isLoading is true from the send until that message is
\* appended and false afterwards. So a conversation that waits for its
\* assistant message, with the route module loaded and serving the request,
\* eventually gets it.
C25_AssistantMessageFollows ==
    (isLoading /\ Len(uiMessages) % 2 = 1 /\ chatModule = "loaded")
        ~> (~isLoading /\ Len(uiMessages) % 2 = 0)

\* the recorders that are recording
Recording == { r \in 1..Len(recorders) : recorders[r].state = "recording" }

\* C26 (as stated): MediaRecorder.stop() is invoked only on a recorder that
\* is recording, never on one that has stopped already, in any interleaving
\* of the record button with the stop handler; and no second recorder is
\* started while one is active.
C26_StopOnlyWhileRecording ==
    /\ stopCalls \subseteq {"recording"}
    /\ Cardinality(Recording) <= 1

====
